---- MODULE Spec2Model ----
(***************************************************************************)
(* A model of the maze-chase engine of src/pacman.py: the maze and its     *)
(* wall lookup, the grid-aligned movement of Player and Ghost, the input   *)
(* manager, pellet collection, and the scene state machine of GameEngine.  *)
(*                                                                         *)
(* Lengths are exact integers in hundredths of a pixel and times are whole *)
(* milliseconds (pygame's Clock.tick returns whole milliseconds), so every *)
(* product velocity * dt of the program is an integer here.                *)
(***************************************************************************)
EXTENDS Integers, Sequences, FiniteSets, TLC

VARIABLES
    dt,            \* frame time in ms, as yielded by clock.tick(FPS)
    exc,           \* "none", or the exception that ended the program
    last_op,       \* the operation that produced the current state
    frames,        \* the calls or loop iterations made so far
    wall_query,    \* the last direct call of Maze.is_wall and its outcome
    \* GameScene (the scene registered for PLAYING)
    ghost,         \* the Ghost object
    player,        \* the Player object
    eaten,         \* the cells of the pellets whose eaten flag is true
    score,         \* GameScene.score
    power,         \* is_power_pellet_active and power_pellet_timer (ms)
    particles,     \* ParticleSystem.particles
    coll,          \* what the last check_pellet_collision returned
    \* the same objects as they were before the last update
    prev_ghost, prev_player, prev_eaten, prev_score,
    \* GameEngine, InputManager, MainMenuScene
    running,       \* GameEngine.running
    current_state, \* GameEngine.current_state
    current_scene, \* the scene object GameEngine.current_scene refers to
    scenes,        \* GameEngine.scenes: state -> scene object
    selected_option,    \* MainMenuScene.selected_option
    keys_pressed,       \* InputManager.keys_pressed
    keys_just_pressed,  \* InputManager.keys_just_pressed
    press_order,   \* the held keys, least recently pressed first
    calls,         \* the scene objects the last loop iteration called
    steps,         \* the calls the last loop iteration made, in order
    quit_signal,   \* the last loop iteration saw a quit signal
    requested,     \* the argument of the last direct change_state call
    prev_engine,   \* the engine's fields before the last operation
    old_session,   \* the GameScene the last change_state(PLAYING) replaced
    \* ParticleSystem, called directly
    prev_particles,     \* the particles before the last operation
    emit_log,      \* per emit: its color, lifetime, and the dt elapsed since
    \* SoundManager
    sound,         \* SoundManager.enabled and the keys of SoundManager.sounds
    prev_sound,    \* the same before the last operation
    load_failed,   \* a synthesis failed in _load_sounds
    play_request,  \* the arguments of the last play call
    played,        \* the playbacks the last operation started
    \* what the operations called directly were given and what they returned
    batch,         \* the batch the last InputManager.update was given
    prev_input,    \* the held keys before the last InputManager.update
    probe,         \* a position, with what is_centered, world_to_grid and
                   \* get_grid_pos return for it
    crossing,      \* the ghost's passage through the centered window it is
                   \* in or has just left
    since_loss,    \* the dt of the updates since the last lose_life (ms)
    since_power    \* the dt of the updates since a power pellet was last
                   \* eaten, that update included (ms)

entity_vars == <<ghost, player, prev_ghost, prev_player>>
pellet_vars == <<eaten, score, power, particles, coll, prev_eaten, prev_score>>
input_vars == <<keys_pressed, keys_just_pressed, press_order>>
engine_vars ==
    <<running, current_state, current_scene, scenes, selected_option, calls>>
loop_vars == <<steps, quit_signal>>
session_vars == <<requested, prev_engine, old_session>>
particle_vars == <<prev_particles, emit_log>>
sound_vars == <<sound, prev_sound, load_failed, play_request, played>>
direct_vars ==
    <<batch, prev_input, probe, crossing, since_loss, since_power>>

vars ==
    <<dt, exc, last_op, frames, wall_query, entity_vars, pellet_vars,
      input_vars, engine_vars, loop_vars, session_vars, particle_vars,
      sound_vars, direct_vars>>

----------------------------------------------------------------------------
(* Settings *)

FPS == 60
CELL_SIZE == 32
MAZE_OFFSET_X == 48
MAZE_OFFSET_Y == 120
PLAYER_SPEED == 160
PLAYER_INVULNERABILITY_DURATION == 3
GHOST_SPEED == 140
CENTER_TOLERANCE == 3

\* n pixels in model units (hundredths of a pixel)
Px(n) == n * 100

\* The frame times of a run, in ms.  clock.tick(FPS) waits until 1000/FPS
\* (16) ms have passed since the previous frame and returns the whole
\* milliseconds that did pass; the program sets no upper cap, so a loaded
\* machine yields more (50 ms is 20 frames per second).  A run keeps one
\* frame time.
FrameTimes == {1000 \div FPS, 50}

----------------------------------------------------------------------------
(* Direction *)

Directions == {"UP", "DOWN", "LEFT", "RIGHT"}

DirVec(d) ==
    CASE d = "NONE"  -> <<0, 0>>
      [] d = "UP"    -> <<0, -1>>
      [] d = "DOWN"  -> <<0, 1>>
      [] d = "LEFT"  -> <<-1, 0>>
      [] d = "RIGHT" -> <<1, 0>>

\* Direction(tuple(-x for x in d.value))
Reverse(d) ==
    CASE d = "NONE"  -> "NONE"
      [] d = "UP"    -> "DOWN"
      [] d = "DOWN"  -> "UP"
      [] d = "LEFT"  -> "RIGHT"
      [] d = "RIGHT" -> "LEFT"

----------------------------------------------------------------------------
(* Maze *)

LAYOUT ==
  <<
     <<"1","1","1","1","1","1","1","1","1","1","1","1","1","1","1","1","1","1","1","1","1","1","1">>,
     <<"1","P",".",".",".",".",".",".",".",".",".",".","1",".",".",".",".",".",".",".",".",".",".","P","1">>,
     <<"1",".","1","1","1",".","1","1","1","1","1",".","1",".","1","1","1","1","1",".","1","1","1",".","1">>,
     <<"1",".","1","1","1",".","1","1","1","1","1",".","1",".","1","1","1","1","1",".","1","1","1",".","1">>,
     <<"1",".",".",".",".",".",".",".",".",".",".",".",".",".",".",".",".",".",".",".",".",".",".",".","1">>,
     <<"1",".","1","1","1",".","1",".","1","1","1","1","1","1","1",".","1",".","1","1","1",".","1">>,
     <<"1",".",".",".",".",".","1",".",".",".","1",".",".",".","1",".",".",".","1",".",".",".",".",".","1">>,
     <<"1","1","1","1","1",".","1","1","1",".","1",".","1","1","1",".","1","1","1","1","1">>,
     <<" "," "," "," ","1",".","1"," "," "," ","G"," "," "," ","1",".","1"," "," "," "," ">>,
     <<"1","1","1","1","1",".","1"," ","1","1","1","1","1"," ","1",".","1","1","1","1","1">>,
     <<"1",".",".",".",".",".",".",".","1"," "," "," ","1",".",".",".",".",".",".",".","1">>,
     <<"1","1","1","1","1",".","1"," ","1","1","S","1","1"," ","1",".","1","1","1","1","1">>,
     <<" "," "," "," ","1",".","1"," "," "," "," "," "," "," ","1",".","1"," "," "," "," ">>,
     <<"1","1","1","1","1",".","1"," ","1","1","1","1","1"," ","1",".","1","1","1","1","1">>,
     <<"1",".",".",".",".",".",".",".",".",".",".",".","1",".",".",".",".",".",".",".",".",".",".",".","1">>,
     <<"1",".","1","1","1",".","1","1","1","1","1",".","1",".","1","1","1","1","1",".","1","1","1",".","1">>,
     <<"1",".",".",".","P",".",".",".","1",".",".",".","1",".",".",".","1",".",".",".","P",".",".",".","1">>,
     <<"1","1","1",".","1","1","1",".","1",".","1","1","1","1","1",".","1",".","1","1","1",".","1","1","1">>,
     <<"1",".",".",".",".",".",".",".","1",".",".",".","1",".",".",".","1",".",".",".",".",".",".",".","1">>,
     <<"1",".","1","1","1","1","1","1","1","1","1",".","1","1","1","1","1","1","1","1","1","1",".","1">>,
     <<"1","P",".",".",".",".",".",".",".",".",".",".",".",".",".",".",".",".",".",".",".",".",".","P","1">>,
     <<"1","1","1","1","1","1","1","1","1","1","1","1","1","1","1","1","1","1","1","1","1","1","1">>
  >>

NumRows == Len(LAYOUT)

\* layout_str[r][c], with Python's 0-based indices
Glyph(c, r) == LAYOUT[r + 1][c + 1]

\* Python's int(): truncation toward zero
TruncDiv(a, b) == IF a >= 0 THEN a \div b ELSE -((-a) \div b)

Abs(a) == IF a >= 0 THEN a ELSE -a

grid_to_world(g) ==
    << Px(MAZE_OFFSET_X) + g[1] * Px(CELL_SIZE) + Px(CELL_SIZE) \div 2,
       Px(MAZE_OFFSET_Y) + g[2] * Px(CELL_SIZE) + Px(CELL_SIZE) \div 2 >>

world_to_grid(p) ==
    << TruncDiv(p[1] - Px(MAZE_OFFSET_X), Px(CELL_SIZE)),
       TruncDiv(p[2] - Px(MAZE_OFFSET_Y), Px(CELL_SIZE)) >>

\* The index layout_str[r][c] of is_wall is evaluated only after both range
\* tests passed (short-circuit "and"); it raises IndexError when row r is
\* shorter than row 0.
is_wall_raises(g) ==
    /\ 0 <= g[2] /\ g[2] < NumRows
    /\ 0 <= g[1] /\ g[1] < Len(LAYOUT[1])
    /\ g[1] >= Len(LAYOUT[g[2] + 1])

\* The value is_wall returns when it returns
is_wall(g) ==
    ~ ( /\ 0 <= g[2] /\ g[2] < NumRows
        /\ 0 <= g[1] /\ g[1] < Len(LAYOUT[1])
        /\ Glyph(g[1], g[2]) # "1" )

\* The outcome of one call, as a value: "True", "False" or "IndexError"
is_wall_outcome(g) ==
    IF is_wall_raises(g) THEN "IndexError"
    ELSE IF is_wall(g) THEN "True" ELSE "False"

\* The length of the longest layout row
MaxRowLen ==
    CHOOSE n \in { Len(LAYOUT[i]) : i \in 1..NumRows } :
        \A i \in 1..NumRows : Len(LAYOUT[i]) <= n

CellsWith(ch) ==
    { g \in (0..(MaxRowLen - 1)) \X (0..(NumRows - 1)) :
        g[1] < Len(LAYOUT[g[2] + 1]) /\ Glyph(g[1], g[2]) = ch }

\* _parse_layout: the 'S' cell (the layout has one, so the fallback cell of
\* line 268 is not used) and the 'G' cells (the layout has one: "blinky")
player_start_pos == grid_to_world(CHOOSE g \in CellsWith("S") : TRUE)
ghost_start_pos == grid_to_world(CHOOSE g \in CellsWith("G") : TRUE)

----------------------------------------------------------------------------
(* Entity *)

get_grid_pos(e) == world_to_grid(e.position)

AxisCentered(v, origin) ==
    Abs(((v - Px(origin)) % Px(CELL_SIZE)) - Px(CELL_SIZE) \div 2)
        < Px(CENTER_TOLERANCE)

\* is_centered testing the x axis only
is_centered_x_only(e) == AxisCentered(e.position[1], MAZE_OFFSET_X)

is_centered(e) ==
    /\ AxisCentered(e.position[1], MAZE_OFFSET_X)
    /\ AxisCentered(e.position[2], MAZE_OFFSET_Y)

Neighbour(e, d) ==
    << get_grid_pos(e)[1] + DirVec(d)[1], get_grid_pos(e)[2] + DirVec(d)[2] >>

\* Vector2(dx * speed, dy * speed), in pixels per second
Velocity(d, speed) == << DirVec(d)[1] * speed, DirVec(d)[2] * speed >>

\* position + velocity * dt, for dt = t ms
Advance(pos, vel, t) ==
    << pos[1] + (Px(vel[1]) * t) \div 1000, pos[2] + (Px(vel[2]) * t) \div 1000 >>

----------------------------------------------------------------------------
(* Ghost *)

\* Ghost.__init__
NewGhost(pos) ==
    [position |-> pos, direction |-> "UP", velocity |-> <<0, 0>>]

\* The four is_wall calls of the loop of lines 442-445; one of them raises
Ghost_query_raises(gh) ==
    is_centered(gh) /\ \E d \in Directions : is_wall_raises(Neighbour(gh, d))

\* possible_dirs after the loop
Ghost_possible_dirs(gh) == { d \in Directions : ~ is_wall(Neighbour(gh, d)) }

\* The no-backtrack rule left out: the reverse stays a candidate
Ghost_candidates_keep_reverse(gh) == Ghost_possible_dirs(gh)

\* possible_dirs after the no-backtrack rule of lines 446-450
Ghost_candidates(gh) ==
    LET poss == Ghost_possible_dirs(gh)
    IN  IF gh.direction \in poss /\ Cardinality(poss) > 1
        THEN poss \ {Reverse(gh.direction)}
        ELSE poss

\* The directions the ghost may leave the update with: what random.choice
\* can return when centered with a candidate, else the direction it has
Ghost_choices(gh) ==
    IF is_centered(gh) /\ Ghost_candidates(gh) # {}
    THEN Ghost_candidates(gh)
    ELSE {gh.direction}

\* Lines 455-457, with direction d: the ghost after the update
Ghost_moved(gh, d, t) ==
    [position  |-> Advance(gh.position, Velocity(d, GHOST_SPEED), t),
     direction |-> d,
     velocity  |-> Velocity(d, GHOST_SPEED)]

----------------------------------------------------------------------------
(* Player *)

MoveKeys ==
    {"K_LEFT", "K_a", "K_RIGHT", "K_d", "K_UP", "K_w", "K_DOWN", "K_s"}

\* Player.__init__
NewPlayer(pos) ==
    [position |-> pos, direction |-> "LEFT", next_direction |-> "LEFT",
     velocity |-> <<0, 0>>, lives |-> 3,
     is_invulnerable |-> FALSE, invulnerable_timer |-> 0]

\* Player._handle_input: next_direction, given the held keys
handle_input(next, held) ==
    IF "K_LEFT" \in held \/ "K_a" \in held THEN "LEFT"
    ELSE IF "K_RIGHT" \in held \/ "K_d" \in held THEN "RIGHT"
    ELSE IF "K_UP" \in held \/ "K_w" \in held THEN "UP"
    ELSE IF "K_DOWN" \in held \/ "K_s" \in held THEN "DOWN"
    ELSE next

\* The player after _handle_input
Player_after_input(p, held) ==
    [p EXCEPT !.next_direction = handle_input(p.next_direction, held)]

\* Lines 383-386: the is_wall call on the desired direction raises
Player_turn_raises(p) ==
    is_centered(p) /\ is_wall_raises(Neighbour(p, p.next_direction))

\* The turn made without the is_centered test
Player_after_turn_uncentered(p) ==
    IF is_wall_outcome(Neighbour(p, p.next_direction)) = "False"
    THEN [p EXCEPT !.direction = p.next_direction]
    ELSE p

\* Lines 383-387: commit the desired direction when centered and open
Player_after_turn(p) ==
    IF is_centered(p) /\ ~ is_wall(Neighbour(p, p.next_direction))
    THEN [p EXCEPT !.direction = p.next_direction]
    ELSE p

\* Line 391: the is_wall call on the cell ahead raises (it is made whether
\* or not the player is centered: is_wall is the left operand of "and")
Player_ahead_raises(p) == is_wall_raises(Neighbour(p, p.direction))

\* The step made without the stop at a wall
Player_after_step_no_stop(p, t) ==
    [p EXCEPT !.velocity = Velocity(p.direction, PLAYER_SPEED),
              !.position = Advance(p.position,
                                   Velocity(p.direction, PLAYER_SPEED), t)]

\* Lines 389-396: stop at a wall while centered, else move
Player_after_step(p, t) ==
    LET vel == IF is_wall(Neighbour(p, p.direction)) /\ is_centered(p)
               THEN <<0, 0>>
               ELSE Velocity(p.direction, PLAYER_SPEED)
    IN  [p EXCEPT !.velocity = vel,
                  !.position = Advance(p.position, vel, t)]

\* The countdown that keeps the flag while the timer is exactly 0
Player_after_countdown_keeps_zero(p, t) ==
    IF p.is_invulnerable
    THEN [p EXCEPT !.invulnerable_timer = p.invulnerable_timer - t,
                   !.is_invulnerable = (p.invulnerable_timer - t >= 0)]
    ELSE p

\* Lines 372-374: the invulnerability countdown, in ms
Player_after_countdown(p, t) ==
    IF p.is_invulnerable
    THEN [p EXCEPT !.invulnerable_timer = p.invulnerable_timer - t,
                   !.is_invulnerable = (p.invulnerable_timer - t > 0)]
    ELSE p

\* Player.update raises IndexError
Player_update_raises(p, held) ==
    LET p1 == Player_after_input(p, held)
    IN  IF Player_turn_raises(p1) THEN TRUE
        ELSE Player_ahead_raises(Player_after_turn(p1))

\* The player as Player.update leaves it when it raises
Player_update_aborted(p, held) ==
    LET p1 == Player_after_input(p, held)
    IN  IF Player_turn_raises(p1) THEN p1 ELSE Player_after_turn(p1)

\* The player after a Player.update that returns
Player_update(p, held, t) ==
    Player_after_countdown(
        Player_after_step(Player_after_turn(Player_after_input(p, held)), t), t)

\* Player.lose_life
Player_lose_life(p) ==
    [p EXCEPT !.lives = p.lives - 1,
              !.is_invulnerable = TRUE,
              !.invulnerable_timer = PLAYER_INVULNERABILITY_DURATION * 1000]

----------------------------------------------------------------------------
(* Pellet and Maze.check_pellet_collision *)

POWER_PELLET_DURATION == 8
EMIT_COUNT == 5

\* The draw of random.uniform(0.2, 0.5) for a particle's lifetime, in ms:
\* the session's emits are represented by the midpoint of the range
EMIT_LIFETIME == (200 + 500) \div 2

\* Pellet.__init__ for the pellet of cell g (its position the centre of
\* the cell, lines 256-259); the eaten flags are kept apart, as the set of
\* the cells whose pellet is eaten
NewPellet(g) ==
    [cell |-> g,
     position |-> grid_to_world(g),
     is_power |-> Glyph(g[1], g[2]) = "P",
     points |-> IF Glyph(g[1], g[2]) = "P" THEN 50 ELSE 10]

\* _parse_layout: one pellet per '.' and per 'P' cell
Pellets == { NewPellet(g) : g \in CellsWith(".") \cup CellsWith("P") }

PelletCells == { p.cell : p \in Pellets }

\* CELL_SIZE / 2
HalfCell == Px(CELL_SIZE) \div 2

\* a.distance_to(b) < r, for r >= 0: both sides squared, once neither
\* coordinate differs by r or more (which keeps the squares small)
Nearer(a, b, r) ==
    /\ a[1] - b[1] < r
    /\ b[1] - a[1] < r
    /\ a[2] - b[2] < r
    /\ b[2] - a[2] < r
    /\ (a[1] - b[1]) * (a[1] - b[1]) + (a[2] - b[2]) * (a[2] - b[2]) < r * r

\* The collision test without its "not pellet.eaten"
Pellets_hit_eaten_too(pos, eaten_) ==
    { p \in Pellets : Nearer(pos, p.position, HalfCell) }

\* The collision test with <= for <
Pellets_hit_inclusive(pos, eaten_) ==
    { p \in Pellets :
        /\ p.cell \notin eaten_
        /\ Nearer(pos, p.position, HalfCell + 1) }

\* The pellets that pass the test of line 304: not eaten, and nearer than
\* CELL_SIZE / 2
Pellets_hit(pos, eaten_) ==
    { p \in Pellets : p.cell \notin eaten_ /\ Nearer(pos, p.position, HalfCell) }

\* score += pellet.points, over the pellets hit
RECURSIVE SumPoints(_)
SumPoints(S) ==
    IF S = {} THEN 0
    ELSE LET p == CHOOSE x \in S : TRUE
         IN  p.points + SumPoints(S \ {p})

----------------------------------------------------------------------------
(* ParticleSystem.  A particle is its remaining lifetime, its maximum      *)
(* lifetime and its color; its position and velocity, which nothing reads  *)
(* but draw, are left out.                                                 *)

\* emit: one particle per drawn lifetime, appended in order
Particles_emit(ps, color, draws) ==
    ps \o [ i \in 1..Len(draws) |->
              [lifetime |-> draws[i], max_lifetime |-> draws[i],
               color |-> color] ]

\* update that keeps a particle whose lifetime is exactly 0
Particles_update_keeps_zero(ps, t) ==
    SelectSeq([ i \in 1..Len(ps) |-> [ps[i] EXCEPT !.lifetime = @ - t] ],
              LAMBDA p : p.lifetime >= 0)

\* update that removes a particle one call late: it tests the lifetime
\* before it subtracts
Particles_update_late(ps, t) ==
    [ i \in 1..Len(SelectSeq(ps, LAMBDA p : p.lifetime > 0)) |->
        [SelectSeq(ps, LAMBDA p : p.lifetime > 0)[i]
            EXCEPT !.lifetime = @ - t] ]

\* update: age every particle by t ms, keep those with lifetime > 0
Particles_update(ps, t) ==
    SelectSeq([ i \in 1..Len(ps) |-> [ps[i] EXCEPT !.lifetime = @ - t] ],
              LAMBDA p : p.lifetime > 0)

\* check_pellet_collision that clears the flag of a pellet out of reach
check_pellet_collision_respawns(pos, eaten_, ps) ==
    LET hit == Pellets_hit(pos, eaten_)
    IN  [eaten |-> { p.cell : p \in hit },
         score |-> SumPoints(hit),
         power |-> \E p \in hit : p.is_power,
         particles |->
             Particles_emit(ps, "COLOR_YELLOW",
                 [ i \in 1..(EMIT_COUNT * Cardinality(hit)) |-> EMIT_LIFETIME ])]

\* check_pellet_collision(player), the player at pos: the pellets' flags,
\* the returned pair and the particle list afterwards
check_pellet_collision(pos, eaten_, ps) ==
    LET hit == Pellets_hit(pos, eaten_)
    IN  [eaten |-> eaten_ \cup { p.cell : p \in hit },
         score |-> SumPoints(hit),
         power |-> \E p \in hit : p.is_power,
         particles |->
             Particles_emit(ps, "COLOR_YELLOW",
                 [ i \in 1..(EMIT_COUNT * Cardinality(hit)) |-> EMIT_LIFETIME ])]

----------------------------------------------------------------------------
(* GameScene *)

NoCollision == [score |-> 0, power |-> FALSE]

\* GameScene.__init__
NewScene ==
    [player |-> NewPlayer(player_start_pos),
     ghost |-> NewGhost(ghost_start_pos),
     eaten |-> {},
     score |-> 0,
     power |-> [active |-> FALSE, timer |-> 0],
     particles |-> <<>>,
     coll |-> NoCollision,
     exc |-> "none"]

\* The scene registered for PLAYING, as a record
Scene ==
    [player |-> player, ghost |-> ghost, eaten |-> eaten, score |-> score,
     power |-> power, particles |-> particles, coll |-> coll, exc |-> exc]

\* What random.choice of line 453 may return in an update that reaches it
Ghost_update_choices(gh) ==
    IF Ghost_query_raises(gh) THEN {gh.direction} ELSE Ghost_choices(gh)

\* The power state still active when its timer has reached exactly 0
Scene_after_collision_late_expiry(sc, c, t) ==
    LET timer1 == IF c.power THEN POWER_PELLET_DURATION * 1000
                  ELSE sc.power.timer
        active1 == c.power \/ sc.power.active
    IN  [sc EXCEPT
           !.eaten = c.eaten,
           !.particles = c.particles,
           !.coll = [score |-> c.score, power |-> c.power],
           !.score = IF c.score > 0 THEN sc.score + c.score ELSE sc.score,
           !.power = IF active1
                     THEN [active |-> timer1 - t >= 0, timer |-> timer1 - t]
                     ELSE [active |-> FALSE, timer |-> timer1]]

\* The score set to the gain of the update, not raised by it
Scene_after_collision_sets_score(sc, c, t) ==
    LET timer1 == IF c.power THEN POWER_PELLET_DURATION * 1000
                  ELSE sc.power.timer
        active1 == c.power \/ sc.power.active
    IN  [sc EXCEPT
           !.eaten = c.eaten,
           !.particles = c.particles,
           !.coll = [score |-> c.score, power |-> c.power],
           !.score = IF c.score > 0 THEN c.score ELSE sc.score,
           !.power = IF active1
                     THEN [active |-> timer1 - t > 0, timer |-> timer1 - t]
                     ELSE [active |-> FALSE, timer |-> timer1]]

\* Lines 527-538: score and power state after the collision result c
Scene_after_collision(sc, c, t) ==
    LET timer1 == IF c.power THEN POWER_PELLET_DURATION * 1000
                  ELSE sc.power.timer
        active1 == c.power \/ sc.power.active
    IN  [sc EXCEPT
           !.eaten = c.eaten,
           !.particles = c.particles,
           !.coll = [score |-> c.score, power |-> c.power],
           !.score = IF c.score > 0 THEN sc.score + c.score ELSE sc.score,
           !.power = IF active1
                     THEN [active |-> timer1 - t > 0, timer |-> timer1 - t]
                     ELSE [active |-> FALSE, timer |-> timer1]]

\* GameScene.update(dt) for dt = t ms, the input manager holding the keys
\* held and random.choice returning d.  An IndexError of is_wall leaves the
\* update where it is raised.
GameScene_update(sc, held, d, t) ==
    LET aged == Particles_update(sc.particles, t)
    IN  IF Player_update_raises(sc.player, held)
        THEN [sc EXCEPT !.particles = aged,
                        !.player = Player_update_aborted(sc.player, held),
                        !.exc = "IndexError"]
        ELSE IF Ghost_query_raises(sc.ghost)
        THEN [sc EXCEPT !.particles = aged,
                        !.player = Player_update(sc.player, held, t),
                        !.exc = "IndexError"]
        ELSE LET p2 == Player_update(sc.player, held, t)
             IN  Scene_after_collision(
                     [sc EXCEPT !.player = p2,
                                !.ghost = Ghost_moved(sc.ghost, d, t)],
                     check_pellet_collision(p2.position, sc.eaten, aged), t)

\* The scene variables take the values of the scene record r, which came
\* from the scene record sc by an update
SceneBecomes(sc, r) ==
    /\ player' = r.player
    /\ ghost' = r.ghost
    /\ eaten' = r.eaten
    /\ score' = r.score
    /\ power' = r.power
    /\ particles' = r.particles
    /\ coll' = r.coll
    /\ exc' = r.exc
    /\ prev_player' = sc.player
    /\ prev_ghost' = sc.ghost
    /\ prev_eaten' = sc.eaten
    /\ prev_score' = sc.score

----------------------------------------------------------------------------
(* InputManager *)

EventTypes == {"KEYDOWN", "KEYUP"}

\* The manager as a record
Input ==
    [keys_pressed |-> keys_pressed, keys_just_pressed |-> keys_just_pressed,
     press_order |-> press_order]

Without(s, k) == SelectSeq(s, LAMBDA x : x # k)

\* One event, a release also taking the key out of the just-pressed set
Input_event_release_clears_press(inp, e) ==
    IF e.type = "KEYDOWN"
    THEN [keys_pressed |-> inp.keys_pressed \cup {e.key},
          keys_just_pressed |-> inp.keys_just_pressed \cup {e.key},
          press_order |-> Append(Without(inp.press_order, e.key), e.key)]
    ELSE IF e.type = "KEYUP"
    THEN [keys_pressed |-> inp.keys_pressed \ {e.key},
          keys_just_pressed |-> inp.keys_just_pressed \ {e.key},
          press_order |-> Without(inp.press_order, e.key)]
    ELSE inp

\* Lines 174-179, for one event; press_order records the order of the
\* presses of the held keys
Input_event(inp, e) ==
    IF e.type = "KEYDOWN"
    THEN [keys_pressed |-> inp.keys_pressed \cup {e.key},
          keys_just_pressed |-> inp.keys_just_pressed \cup {e.key},
          press_order |-> Append(Without(inp.press_order, e.key), e.key)]
    ELSE IF e.type = "KEYUP"
    THEN [inp EXCEPT !.keys_pressed = @ \ {e.key},
                     !.press_order = Without(@, e.key)]
    ELSE inp

RECURSIVE Input_events(_, _)
Input_events(inp, events) ==
    IF events = <<>> THEN inp
    ELSE Input_events(Input_event(inp, Head(events)), Tail(events))

\* InputManager.update(events)
InputManager_update(inp, events) ==
    Input_events([inp EXCEPT !.keys_just_pressed = {}], events)

----------------------------------------------------------------------------
(* MainMenuScene and GameEngine *)

GameStates ==
    {"MAIN_MENU", "PLAYING", "PAUSED", "GAME_OVER", "LEVEL_TRANSITION"}

\* Scene objects: the menu, and the n-th GameScene constructed
MenuObject == <<"MainMenuScene", 1>>
GameObject(n) == <<"GameScene", n>>
NoObject == <<"none", 0>>

\* handle_events with the two options' actions exchanged
MainMenu_handle_events_swapped(sel, just) ==
    IF "K_DOWN" \in just
    THEN [selected_option |-> (sel + 1) % 2, request |-> "none"]
    ELSE IF "K_UP" \in just
    THEN [selected_option |-> (sel - 1) % 2, request |-> "none"]
    ELSE IF "K_RETURN" \in just
    THEN [selected_option |-> sel,
          request |-> IF sel = 1 THEN "start"
                      ELSE IF sel = 0 THEN "quit" ELSE "none"]
    ELSE [selected_option |-> sel, request |-> "none"]

\* MainMenuScene.handle_events: the option selected afterwards, and what
\* the menu asks of the engine
MainMenu_handle_events(sel, just) ==
    IF "K_DOWN" \in just
    THEN [selected_option |-> (sel + 1) % 2, request |-> "none"]
    ELSE IF "K_UP" \in just
    THEN [selected_option |-> (sel - 1) % 2, request |-> "none"]
    ELSE IF "K_RETURN" \in just
    THEN [selected_option |-> sel,
          request |-> IF sel = 0 THEN "start"
                      ELSE IF sel = 1 THEN "quit" ELSE "none"]
    ELSE [selected_option |-> sel, request |-> "none"]

\* The engine's scene fields as a record
Engine ==
    [current_state |-> current_state, current_scene |-> current_scene,
     scenes |-> scenes, constructed |-> FALSE]

\* GameEngine.__init__ and _init_scenes
NewEngine ==
    [current_state |-> "MAIN_MENU", current_scene |-> MenuObject,
     scenes |-> [s \in {"MAIN_MENU", "PLAYING"} |->
                   IF s = "MAIN_MENU" THEN MenuObject ELSE GameObject(1)],
     constructed |-> FALSE]

\* change_state that resumes the registered GameScene for PLAYING
change_state_resumes(eng, new_state) ==
    IF new_state \in DOMAIN eng.scenes
    THEN [current_state |-> new_state,
          current_scene |-> eng.scenes[new_state],
          scenes |-> eng.scenes,
          constructed |-> FALSE]
    ELSE eng

\* change_state that assigns current_state before it looks up the scene
change_state_unchecked(eng, new_state) ==
    IF new_state \in DOMAIN eng.scenes
    THEN LET reg == IF new_state = "PLAYING"
                    THEN [eng.scenes EXCEPT
                            !["PLAYING"] = GameObject(eng.scenes["PLAYING"][2] + 1)]
                    ELSE eng.scenes
         IN  [current_state |-> new_state,
              current_scene |-> reg[new_state],
              scenes |-> reg,
              constructed |-> (new_state = "PLAYING")]
    ELSE [eng EXCEPT !.current_state = new_state]

\* change_state that enters PLAYING by way of LEVEL_TRANSITION
change_state_via_transition(eng, new_state) ==
    IF new_state \in DOMAIN eng.scenes
    THEN LET reg == IF new_state = "PLAYING"
                    THEN [eng.scenes EXCEPT
                            !["PLAYING"] = GameObject(eng.scenes["PLAYING"][2] + 1)]
                    ELSE eng.scenes
         IN  [current_state |-> IF new_state = "PLAYING"
                                THEN "LEVEL_TRANSITION" ELSE new_state,
              current_scene |-> reg[new_state],
              scenes |-> reg,
              constructed |-> (new_state = "PLAYING")]
    ELSE eng

\* change_state that looks the scene up before it registers the new one
change_state_stale_scene(eng, new_state) ==
    IF new_state \in DOMAIN eng.scenes
    THEN LET reg == IF new_state = "PLAYING"
                    THEN [eng.scenes EXCEPT
                            !["PLAYING"] = GameObject(eng.scenes["PLAYING"][2] + 1)]
                    ELSE eng.scenes
         IN  [current_state |-> new_state,
              current_scene |-> eng.scenes[new_state],
              scenes |-> reg,
              constructed |-> (new_state = "PLAYING")]
    ELSE eng

\* GameEngine.change_state; constructed tells that a GameScene was built
change_state(eng, new_state) ==
    IF new_state \in DOMAIN eng.scenes
    THEN LET reg == IF new_state = "PLAYING"
                    THEN [eng.scenes EXCEPT
                            !["PLAYING"] = GameObject(eng.scenes["PLAYING"][2] + 1)]
                    ELSE eng.scenes
         IN  [current_state |-> new_state,
              current_scene |-> reg[new_state],
              scenes |-> reg,
              constructed |-> (new_state = "PLAYING")]
    ELSE eng

\* The engine's scene fields and the menu's selection, as a record
EngineFields ==
    [current_state |-> current_state, current_scene |-> current_scene,
     scenes |-> scenes, selected_option |-> selected_option]

\* Scene.handle_events of the scene object handler: the menu's method for
\* the menu, the base class's "pass" (line 471) for a GameScene
Scene_handle_events(handler, sel, just) ==
    IF handler = MenuObject THEN MainMenu_handle_events(sel, just)
    ELSE [selected_option |-> sel, request |-> "none"]

\* The loop that takes no notice of a quit signal
Run_continues_regardless(quit_event, request) == TRUE

\* self.running after an iteration that began with it true: a QUIT event
\* (line 596) or the menu's Quit option (line 493) clears it
Run_continues(quit_event, request) == ~ (quit_event \/ request = "quit")

\* The calls of one iteration of run(), lines 598-602, in order; an
\* exception raised by update ends the iteration there
Run_steps(update_raised) ==
    IF update_raised
    THEN <<"InputManager.update", "handle_events", "update">>
    ELSE <<"InputManager.update", "handle_events", "update", "draw", "flip">>

----------------------------------------------------------------------------
(* SoundManager *)

\* The effects in the order _load_sounds synthesizes them
SoundNames ==
    <<"intro", "eat_pellet", "eat_power_pellet", "eat_ghost", "death",
      "menu_select">>

\* _load_sounds that leaves enabled as it is when a synthesis fails
SoundManager_load_stays_enabled(failing) ==
    [enabled |-> TRUE,
     sounds |-> IF failing = 0
                THEN { SoundNames[i] : i \in 1..Len(SoundNames) }
                ELSE { SoundNames[i] : i \in 1..(failing - 1) }]

\* SoundManager.__init__ and _load_sounds: the manager when the synthesis
\* of effect number failing raises (0: no synthesis raises).  The effects
\* before it are in sounds; the except clause clears enabled.
SoundManager_load(failing) ==
    IF failing = 0
    THEN [enabled |-> TRUE,
          sounds |-> { SoundNames[i] : i \in 1..Len(SoundNames) }]
    ELSE [enabled |-> FALSE,
          sounds |-> { SoundNames[i] : i \in 1..(failing - 1) }]

\* play without the test of enabled
SoundManager_play_ignores_enabled(snd, name, loops) ==
    IF name \in snd.sounds
    THEN <<[name |-> name, loops |-> loops]>>
    ELSE <<>>

\* SoundManager.play(sound_name, loops): the playbacks it starts
SoundManager_play(snd, name, loops) ==
    IF snd.enabled /\ name \in snd.sounds
    THEN <<[name |-> name, loops |-> loops]>>
    ELSE <<>>

----------------------------------------------------------------------------
(* The state after construction of the engine and its scenes *)

NoQuery == [cell |-> <<0, 0>>, outcome |-> "none"]

NoProbe ==
    [cell |-> <<0, 0>>, offset |-> <<0, 0>>, position |-> <<0, 0>>,
     centered |-> FALSE, grid |-> <<0, 0>>, entity_grid |-> <<0, 0>>,
     made |-> FALSE]

NoCrossing == [inside |-> FALSE, left |-> FALSE, cell |-> <<0, 0>>,
               entered |-> "NONE", exits |-> {}]

NoCalls == [handle_events |-> NoObject, update |-> NoObject, draw |-> NoObject]

\* The engine, its scenes and its input manager, no entity placed yet for
\* a direct call of the grid functions
StartInit ==
    /\ exc = "none"
    /\ last_op = "init"
    /\ frames = 0
    /\ wall_query = NoQuery
    /\ ghost = NewScene.ghost
    /\ player = NewScene.player
    /\ eaten = NewScene.eaten
    /\ score = NewScene.score
    /\ power = NewScene.power
    /\ particles = NewScene.particles
    /\ coll = NewScene.coll
    /\ prev_ghost = NewScene.ghost
    /\ prev_player = NewScene.player
    /\ prev_eaten = NewScene.eaten
    /\ prev_score = NewScene.score
    /\ running = TRUE
    /\ current_state = NewEngine.current_state
    /\ current_scene = NewEngine.current_scene
    /\ scenes = NewEngine.scenes
    /\ selected_option = 0
    /\ keys_pressed = {}
    /\ keys_just_pressed = {}
    /\ press_order = <<>>
    /\ calls = NoCalls
    /\ steps = <<>>
    /\ quit_signal = FALSE
    /\ requested = "none"
    /\ prev_engine = [current_state |-> NewEngine.current_state,
                      current_scene |-> NewEngine.current_scene,
                      scenes |-> NewEngine.scenes,
                      selected_option |-> 0]
    /\ old_session = NewScene
    /\ prev_particles = <<>>
    /\ emit_log = {}
    /\ play_request = [name |-> "none", loops |-> 0]
    /\ played = <<>>
    /\ batch = <<>>
    /\ prev_input = {}
    /\ crossing = NoCrossing
    /\ since_loss = 0
    /\ since_power = 0

\* The engine, its scenes and its input manager
CoreInit == StartInit /\ probe = NoProbe

\* The engine with a sound manager whose effects were all synthesized
BaseInit ==
    /\ dt \in FrameTimes
    /\ CoreInit
    /\ sound = SoundManager_load(0)
    /\ prev_sound = SoundManager_load(0)
    /\ load_failed = FALSE

----------------------------------------------------------------------------
(* Maze.is_wall, called directly *)

\* How far beyond the layout's extent a queried cell may lie
QueryMargin == 2

QueryCells ==
    ((0 - QueryMargin)..(MaxRowLen - 1 + QueryMargin))
        \X ((0 - QueryMargin)..(NumRows - 1 + QueryMargin))

QueryWall ==
    /\ \E g \in QueryCells :
            wall_query' = [cell |-> g, outcome |-> is_wall_outcome(g)]
    /\ last_op' = "Maze.is_wall"
    /\ UNCHANGED <<dt, exc, frames, entity_vars, pellet_vars, input_vars,
                   engine_vars, loop_vars, session_vars,
                   particle_vars, sound_vars, direct_vars>>

WallInit == BaseInit
WallNext == QueryWall
WallSpec == WallInit /\ [][WallNext]_vars

----------------------------------------------------------------------------
(* Ghost.update, on the session's ghost *)

\* The passage through a centered window, followed over an update that
\* takes the ghost from gh to gh2.  It starts with the first update that
\* finds the ghost centered, where the heading the ghost arrived with, the
\* cell and the cell's non-wall neighbour directions are noted, and ends
\* with the update that leaves the ghost not centered.
Ghost_crossing(cr, gh, gh2) ==
    IF ~ is_centered(gh) THEN NoCrossing
    ELSE LET start == IF cr.inside THEN cr
                      ELSE [inside |-> TRUE, left |-> FALSE,
                            cell |-> get_grid_pos(gh),
                            entered |-> gh.direction,
                            exits |-> Ghost_possible_dirs(gh)]
         IN  [start EXCEPT !.inside = is_centered(gh2),
                           !.left = ~ is_centered(gh2)]

GhostUpdate ==
    /\ exc = "none"
    /\ ~ Ghost_query_raises(ghost)
    /\ \E d \in Ghost_choices(ghost) : ghost' = Ghost_moved(ghost, d, dt)
    /\ crossing' = Ghost_crossing(crossing, ghost, ghost')
    /\ prev_ghost' = ghost
    /\ last_op' = "Ghost.update"
    /\ UNCHANGED <<dt, exc, frames, wall_query, player, prev_player,
                   pellet_vars, input_vars, engine_vars, loop_vars, session_vars,
                   particle_vars, sound_vars, batch, prev_input, probe,
                   since_loss, since_power>>

\* An is_wall call of the update raises: the exception leaves run() and the
\* handler of lines 611-616 ends the program
GhostUpdateRaises ==
    /\ exc = "none"
    /\ Ghost_query_raises(ghost)
    /\ exc' = "IndexError"
    /\ prev_ghost' = ghost
    /\ last_op' = "Ghost.update"
    /\ UNCHANGED <<dt, frames, wall_query, ghost, player, prev_player,
                   pellet_vars, input_vars, engine_vars, loop_vars, session_vars,
                   particle_vars, sound_vars, direct_vars>>

GhostInit == BaseInit
GhostNext == GhostUpdate \/ GhostUpdateRaises
GhostSpec == GhostInit /\ [][GhostNext]_vars

----------------------------------------------------------------------------
(* Player.update, on the session's player, under any held keys *)

\* The most keys held at once
MaxHeld == 1

\* The keys pressed in this specification: the arrow keys
ArrowKeys == {"K_LEFT", "K_RIGHT", "K_UP", "K_DOWN"}

HeldSets == { h \in SUBSET ArrowKeys : Cardinality(h) <= MaxHeld }

PlayerUpdate ==
    /\ exc = "none"
    /\ \E held \in HeldSets :
          /\ ~ Player_update_raises(player, held)
          /\ player' = Player_update(player, held, dt)
    /\ prev_player' = player
    /\ last_op' = "Player.update"
    /\ UNCHANGED <<dt, exc, frames, wall_query, ghost, prev_ghost,
                   pellet_vars, input_vars, engine_vars, loop_vars, session_vars,
                   particle_vars, sound_vars, direct_vars>>

PlayerUpdateRaises ==
    /\ exc = "none"
    /\ \E held \in HeldSets :
          /\ Player_update_raises(player, held)
          /\ player' = Player_update_aborted(player, held)
    /\ exc' = "IndexError"
    /\ prev_player' = player
    /\ last_op' = "Player.update"
    /\ UNCHANGED <<dt, frames, wall_query, ghost, prev_ghost,
                   pellet_vars, input_vars, engine_vars, loop_vars, session_vars,
                   particle_vars, sound_vars, direct_vars>>

PlayerInit == BaseInit
PlayerNext == PlayerUpdate \/ PlayerUpdateRaises
PlayerSpec == PlayerInit /\ [][PlayerNext]_vars

----------------------------------------------------------------------------
(* Updates of one entity: a run steps either the player or the ghost.      *)
(* Neither update reads the other entity, so every state the player or the *)
(* ghost reaches in a game is reached here.                                *)

EntityPlayerUpdate == last_op # "Ghost.update" /\ PlayerNext
EntityGhostUpdate == last_op # "Player.update" /\ GhostNext

EntityInit == BaseInit
EntityNext == EntityPlayerUpdate \/ EntityGhostUpdate
EntitySpec == EntityInit /\ [][EntityNext]_vars

----------------------------------------------------------------------------
(* Player.lose_life and the invulnerability countdown of Player.update,    *)
(* on a player no key moves                                                *)

\* The most calls of lose_life in a run
MaxLifeLosses == 4

\* PLAYER_INVULNERABILITY_DURATION in ms
InvulnerabilityMs == PLAYER_INVULNERABILITY_DURATION * 1000

\* The time accumulated over updates since an event, in ms: t more than
\* before, no longer counted once it has reached limit
Elapsed(since, t, limit) == IF since >= limit THEN since ELSE since + t

LifeUpdate ==
    /\ exc = "none"
    /\ player' = IF Player_update_raises(player, {})
                 THEN Player_update_aborted(player, {})
                 ELSE Player_update(player, {}, dt)
    /\ exc' = IF Player_update_raises(player, {}) THEN "IndexError" ELSE "none"
    /\ since_loss' = Elapsed(since_loss, dt, InvulnerabilityMs)
    /\ prev_player' = player
    /\ last_op' = "Player.update"
    /\ UNCHANGED <<dt, frames, wall_query, ghost, prev_ghost,
                   pellet_vars, input_vars, engine_vars, loop_vars, session_vars,
                   particle_vars, sound_vars, batch, prev_input, probe,
                   crossing, since_power>>

LoseLife ==
    /\ exc = "none"
    /\ frames < MaxLifeLosses
    /\ player' = Player_lose_life(player)
    /\ prev_player' = player
    /\ since_loss' = 0
    /\ frames' = frames + 1
    /\ last_op' = "Player.lose_life"
    /\ UNCHANGED <<dt, exc, wall_query, ghost, prev_ghost,
                   pellet_vars, input_vars, engine_vars, loop_vars, session_vars,
                   particle_vars, sound_vars, batch, prev_input, probe,
                   crossing, since_power>>

LifeInit == BaseInit
LifeNext == LifeUpdate \/ LoseLife
LifeSpec == LifeInit /\ [][LifeNext]_vars

----------------------------------------------------------------------------
(* GameScene.update, frame after frame, and Maze.check_pellet_collision    *)
(* called once more on the player where the update left it                 *)

\* The frames of a run
MaxSceneFrames == 50

\* The frame time of these runs
SceneFrameTimes == {50}

\* What the input manager holds during an update.  The desired direction
\* starts LEFT, so an update with no key held does what an update with the
\* key of the desired direction held does.
SceneHeldSets == {{"K_LEFT"}, {"K_DOWN"}}

SceneUpdate ==
    /\ exc = "none"
    /\ frames < MaxSceneFrames
    /\ \E held \in SceneHeldSets, d \in Ghost_update_choices(ghost) :
          SceneBecomes(Scene, GameScene_update(Scene, held, d, dt))
    /\ frames' = frames + 1
    /\ last_op' = "GameScene.update"
    /\ UNCHANGED <<dt, wall_query, input_vars, engine_vars, loop_vars, session_vars,
                   particle_vars, sound_vars, direct_vars>>

CheckPelletCollision ==
    /\ exc = "none"
    /\ last_op = "GameScene.update"
    /\ LET c == check_pellet_collision(player.position, eaten, particles)
       IN  /\ eaten' = c.eaten
           /\ particles' = c.particles
           /\ coll' = [score |-> c.score, power |-> c.power]
    /\ prev_eaten' = eaten
    /\ prev_score' = score
    /\ last_op' = "Maze.check_pellet_collision"
    /\ UNCHANGED <<dt, exc, frames, wall_query, entity_vars, score, power,
                   input_vars, engine_vars, loop_vars, session_vars,
                   particle_vars, sound_vars, direct_vars>>

SceneInit == BaseInit /\ dt \in SceneFrameTimes
SceneNext == SceneUpdate \/ CheckPelletCollision
SceneSpec == SceneInit /\ [][SceneNext]_vars

----------------------------------------------------------------------------
(* GameEngine.change_state called directly, between updates of the current *)
(* scene                                                                   *)

\* The updates of a run, and the GameScene objects built in it
MaxSessionFrames == 8
MaxSessions == 3

\* The frame time of these runs: slow frames, in which the player covers
\* one cell
SessionFrameTimes == {200}

ChangeState ==
    /\ exc = "none"
    /\ \E s \in GameStates :
          /\ s = "PLAYING" => scenes["PLAYING"][2] < MaxSessions
          /\ LET eng == change_state(Engine, s)
             IN  /\ current_state' = eng.current_state
                 /\ current_scene' = eng.current_scene
                 /\ scenes' = eng.scenes
                 /\ IF eng.constructed
                    THEN /\ SceneBecomes(NewScene, NewScene)
                         /\ old_session' = Scene
                    ELSE UNCHANGED <<exc, entity_vars, pellet_vars,
                                     old_session>>
          /\ requested' = s
    /\ prev_engine' = EngineFields
    /\ last_op' = "GameEngine.change_state"
    /\ UNCHANGED <<dt, frames, wall_query, input_vars, running,
                   selected_option, calls, loop_vars, particle_vars,
                   sound_vars, direct_vars>>

\* current_scene.update(dt): GameScene.update, or the "pass" of the menu
SessionUpdate ==
    /\ exc = "none"
    /\ frames < MaxSessionFrames
    /\ IF current_scene = MenuObject
       THEN /\ UNCHANGED <<exc, entity_vars, pellet_vars>>
            /\ last_op' = "Scene.update"
       ELSE /\ \E held \in SceneHeldSets, d \in Ghost_update_choices(ghost) :
                  SceneBecomes(Scene, GameScene_update(Scene, held, d, dt))
            /\ last_op' = "GameScene.update"
    /\ frames' = frames + 1
    /\ UNCHANGED <<dt, wall_query, input_vars, engine_vars, loop_vars,
                   session_vars, particle_vars, sound_vars, direct_vars>>

SessionInit ==
    /\ dt \in SessionFrameTimes
    /\ CoreInit
    /\ sound = SoundManager_load(0)
    /\ prev_sound = SoundManager_load(0)
    /\ load_failed = FALSE
SessionNext == ChangeState \/ SessionUpdate
SessionSpec == SessionInit /\ [][SessionNext]_vars

----------------------------------------------------------------------------
(* ParticleSystem.emit and ParticleSystem.update, called directly on an    *)
(* empty system.  Every emit call has a color of its own, which tells its  *)
(* particles from those of the other calls.                                *)

\* The most particles in the collection, the most particles of one emit,
\* and the update calls of a run
MaxParticles == 3
MaxEmitCount == 2
MaxParticleFrames == 4

ParticleColors == {"COLOR_YELLOW", "COLOR_RED"}

\* What random.uniform(*lifetime_range) may return, in ms
ParticleLifetimes == {50, 100}

ParticleEmit ==
    /\ \E color \in ParticleColors \ { e.color : e \in emit_log },
          n \in 1..MaxEmitCount :
          /\ Len(particles) + n <= MaxParticles
          /\ \E draws \in [1..n -> ParticleLifetimes] :
                /\ particles' = Particles_emit(particles, color, draws)
                /\ emit_log' = emit_log \cup
                      { [color |-> color, lifetime |-> draws[i],
                         elapsed |-> 0] : i \in 1..n }
    /\ prev_particles' = particles
    /\ last_op' = "ParticleSystem.emit"
    /\ UNCHANGED <<dt, exc, frames, wall_query, entity_vars, eaten, score,
                   power, coll, prev_eaten, prev_score, input_vars,
                   engine_vars, loop_vars, session_vars,
                   sound_vars, direct_vars>>

ParticleUpdate ==
    /\ frames < MaxParticleFrames
    /\ particles' = Particles_update(particles, dt)
    /\ emit_log' = { [e EXCEPT !.elapsed = @ + dt] : e \in emit_log }
    /\ prev_particles' = particles
    /\ frames' = frames + 1
    /\ last_op' = "ParticleSystem.update"
    /\ UNCHANGED <<dt, exc, wall_query, entity_vars, eaten, score, power,
                   coll, prev_eaten, prev_score, input_vars, engine_vars,
                   loop_vars, session_vars, sound_vars, direct_vars>>

ParticleInit == BaseInit
ParticleNext == ParticleEmit \/ ParticleUpdate
ParticleSpec == ParticleInit /\ [][ParticleNext]_vars

----------------------------------------------------------------------------
(* SoundManager: its construction, any one synthesis failing or none, and  *)
(* play calls                                                              *)

PlayNames == { SoundNames[i] : i \in 1..Len(SoundNames) } \cup {"unknown"}

PlayLoops == {0 - 1, 0, 1}

SoundPlay ==
    /\ \E name \in PlayNames, loops \in PlayLoops :
          /\ played' = SoundManager_play(sound, name, loops)
          /\ play_request' = [name |-> name, loops |-> loops]
    /\ sound' = sound
    /\ prev_sound' = sound
    /\ last_op' = "SoundManager.play"
    /\ UNCHANGED <<dt, exc, frames, wall_query, entity_vars, pellet_vars,
                   input_vars, engine_vars, loop_vars, session_vars,
                   particle_vars, load_failed, direct_vars>>

SoundInit ==
    /\ dt \in FrameTimes
    /\ CoreInit
    /\ \E failing \in 0..Len(SoundNames) :
          /\ sound = SoundManager_load(failing)
          /\ prev_sound = SoundManager_load(failing)
          /\ load_failed = (failing # 0)
SoundNext == SoundPlay
SoundSpec == SoundInit /\ [][SoundNext]_vars

----------------------------------------------------------------------------
(* GameEngine.run: one action per iteration of the loop *)

\* The iterations of a run, and the most events pygame.event.get returns
MaxFrames == 3
MaxEvents == 2

Keys == ArrowKeys \cup {"K_RETURN"}

Events ==
    [type : EventTypes, key : Keys] \cup {[type |-> "QUIT", key |-> "none"]}

EventBatches == UNION { [1..n -> Events] : n \in 0..MaxEvents }

RunIteration ==
    /\ running
    /\ exc = "none"
    /\ frames < MaxFrames
    /\ \E events \in EventBatches :
          LET quit == \E i \in 1..Len(events) : events[i].type = "QUIT"
              inp == InputManager_update(Input, events)
              handler == current_scene
              menu == MainMenu_handle_events(selected_option,
                                             inp.keys_just_pressed)
              request == Scene_handle_events(handler, selected_option,
                                             inp.keys_just_pressed).request
              eng == IF request = "start"
                     THEN change_state(Engine, "PLAYING") ELSE Engine
              sc == IF eng.constructed THEN NewScene ELSE Scene
          IN  /\ keys_pressed' = inp.keys_pressed
              /\ keys_just_pressed' = inp.keys_just_pressed
              /\ press_order' = inp.press_order
              /\ selected_option' = IF handler = MenuObject
                                    THEN menu.selected_option
                                    ELSE selected_option
              /\ running' = Run_continues(quit, request)
              /\ quit_signal' = quit
              /\ old_session' = IF eng.constructed THEN Scene ELSE old_session
              /\ current_state' = eng.current_state
              /\ current_scene' = eng.current_scene
              /\ scenes' = eng.scenes
              /\ IF eng.current_scene = MenuObject
                 THEN /\ UNCHANGED <<exc, entity_vars, pellet_vars>>
                      /\ steps' = Run_steps(FALSE)
                      /\ calls' = [handle_events |-> handler,
                                   update |-> eng.current_scene,
                                   draw |-> eng.current_scene]
                 ELSE \E d \in Ghost_update_choices(sc.ghost) :
                        LET r == GameScene_update(sc, inp.keys_pressed, d, dt)
                        IN  /\ SceneBecomes(sc, r)
                            /\ steps' = Run_steps(r.exc # "none")
                            /\ calls' = [handle_events |-> handler,
                                         update |-> eng.current_scene,
                                         draw |-> IF r.exc = "none"
                                                  THEN eng.current_scene
                                                  ELSE NoObject]
    /\ frames' = frames + 1
    /\ last_op' = "GameEngine.run"
    /\ prev_engine' = EngineFields
    /\ UNCHANGED <<dt, wall_query, requested, particle_vars,
                   sound_vars, direct_vars>>

Init == BaseInit
Next == RunIteration
Spec == Init /\ [][Next]_vars

----------------------------------------------------------------------------
(* InputManager.update, called directly with any batch of events *)

\* The most events of one batch
MaxInputEvents == 3

InputKeys == {"K_LEFT", "K_RETURN"}

InputEvents ==
    [type : EventTypes, key : InputKeys]
        \cup {[type |-> "QUIT", key |-> "none"]}

InputBatches == UNION { [1..n -> InputEvents] : n \in 0..MaxInputEvents }

InputUpdate ==
    /\ \E b \in InputBatches :
          LET inp == InputManager_update(Input, b)
          IN  /\ keys_pressed' = inp.keys_pressed
              /\ keys_just_pressed' = inp.keys_just_pressed
              /\ press_order' = inp.press_order
              /\ batch' = b
    /\ prev_input' = keys_pressed
    /\ last_op' = "InputManager.update"
    /\ UNCHANGED <<dt, exc, frames, wall_query, entity_vars, pellet_vars,
                   engine_vars, loop_vars, session_vars, particle_vars,
                   sound_vars, probe, crossing, since_loss, since_power>>

InputInit == BaseInit
InputNext == InputUpdate
InputSpec == InputInit /\ [][InputNext]_vars

----------------------------------------------------------------------------
(* Maze.grid_to_world, Maze.world_to_grid, Entity.get_grid_pos and         *)
(* Entity.is_centered, called for an entity placed at or near a cell's     *)
(* center                                                                  *)

\* How far beyond the layout's extent a probed cell may lie
ProbeMargin == 2

ProbeCells ==
    ((0 - ProbeMargin)..(MaxRowLen - 1 + ProbeMargin))
        \X ((0 - ProbeMargin)..(NumRows - 1 + ProbeMargin))

\* Offsets from the center along one axis, in hundredths of a pixel: none,
\* around the tolerance, around CELL_SIZE less the tolerance, a whole cell
ProbeOffsets ==
    { s * o : s \in {0 - 1, 1},
              o \in {0, Px(CENTER_TOLERANCE) - 1, Px(CENTER_TOLERANCE),
                     Px(CENTER_TOLERANCE) + 1,
                     Px(CELL_SIZE - CENTER_TOLERANCE),
                     Px(CELL_SIZE - CENTER_TOLERANCE) + 1,
                     Px(CELL_SIZE)} }

\* An entity constructed at pos
EntityAt(pos) == [position |-> pos]

\* The entity is placed: a cell and an offset are chosen
Placed(cell, offset) ==
    [cell |-> cell, offset |-> offset,
     position |-> << grid_to_world(cell)[1] + offset[1],
                     grid_to_world(cell)[2] + offset[2] >>,
     centered |-> FALSE, grid |-> <<0, 0>>, entity_grid |-> <<0, 0>>,
     made |-> FALSE]

\* The three functions are called for the placed entity
Probe ==
    /\ ~ probe.made
    /\ probe' = [probe EXCEPT
                    !.centered = is_centered(EntityAt(probe.position)),
                    !.grid = world_to_grid(probe.position),
                    !.entity_grid = get_grid_pos(EntityAt(probe.position)),
                    !.made = TRUE]
    /\ last_op' = "Entity.is_centered"
    /\ UNCHANGED <<dt, exc, frames, wall_query, entity_vars, pellet_vars,
                   input_vars, engine_vars, loop_vars, session_vars,
                   particle_vars, sound_vars, batch, prev_input, crossing,
                   since_loss, since_power>>

\* The engine's state after construction, but for the entity placed
GridInit ==
    /\ dt \in FrameTimes
    /\ StartInit
    /\ sound = SoundManager_load(0)
    /\ prev_sound = SoundManager_load(0)
    /\ load_failed = FALSE
    /\ \E cell \in ProbeCells, ox \in ProbeOffsets, oy \in ProbeOffsets :
          probe = Placed(cell, <<ox, oy>>)
GridNext == Probe
GridSpec == GridInit /\ [][GridNext]_vars

----------------------------------------------------------------------------
(* GameScene.update, frame after frame, for as long as a power pellet's    *)
(* effect lasts                                                            *)

\* The frames of a run
MaxPowerFrames == 53

\* The frame time of these runs: 5 frames per second, at which the player
\* moves one cell per frame
PowerFrameTimes == {200}

\* POWER_PELLET_DURATION in ms
PowerMs == POWER_PELLET_DURATION * 1000

\* The dt of the updates since a power pellet was last eaten, after an
\* update of t ms with result r: that update is the first to count
PowerElapsed(since, r, t) ==
    IF r.exc # "none" THEN since
    ELSE IF r.coll.power THEN t
    ELSE IF since > 0 THEN since + t
    ELSE 0

PowerUpdate ==
    /\ exc = "none"
    /\ frames < MaxPowerFrames
    /\ \E held \in SceneHeldSets, d \in Ghost_update_choices(ghost) :
          /\ SceneBecomes(Scene, GameScene_update(Scene, held, d, dt))
          /\ since_power' =
                PowerElapsed(since_power,
                             GameScene_update(Scene, held, d, dt), dt)
    /\ frames' = frames + 1
    /\ last_op' = "GameScene.update"
    /\ UNCHANGED <<dt, wall_query, input_vars, engine_vars, loop_vars,
                   session_vars, particle_vars, sound_vars, batch,
                   prev_input, probe, crossing, since_loss>>

PowerInit ==
    /\ dt \in PowerFrameTimes
    /\ CoreInit
    /\ sound = SoundManager_load(0)
    /\ prev_sound = SoundManager_load(0)
    /\ load_failed = FALSE
PowerNext == PowerUpdate
PowerSpec == PowerInit /\ [][PowerNext]_vars

----------------------------------------------------------------------------
(* Claims *)

\* C1: Maze.is_wall never raises for a cell that a ghost queries from a
\* position it reaches during play: no Ghost.update ends in an exception.
C1_GhostQueriesNeverRaise == exc = "none"

\* A cell outside the maze bounds as C8 defines them
OutOfBounds(g) ==
    IF g[2] < 0 \/ g[2] >= NumRows THEN TRUE
    ELSE g[1] < 0 \/ g[1] >= Len(LAYOUT[g[2] + 1])

\* C8: for every cell outside the maze bounds (row below 0 or at least the
\* number of rows, column below 0 or at least the length of that row),
\* Maze.is_wall returns true.
C8_OutOfBoundsIsWall ==
    (wall_query.outcome # "none" /\ OutOfBounds(wall_query.cell))
        => wall_query.outcome = "True"

\* The ghost's last update returned, and found the ghost centered with at
\* least two non-wall neighbours, the cell behind it among them
C3_Case ==
    /\ last_op = "Ghost.update"
    /\ exc = "none"
    /\ is_centered(prev_ghost)
    /\ Cardinality(Ghost_possible_dirs(prev_ghost)) >= 2
    /\ Reverse(prev_ghost.direction) \in Ghost_possible_dirs(prev_ghost)

C4_Case ==
    /\ last_op = "Player.update"
    /\ is_centered(prev_player)
    /\ prev_player.direction = "RIGHT"
    /\ is_wall_outcome(Neighbour(prev_player, "RIGHT")) = "True"

\* C4 as stated: in that case the update leaves velocity zero, whatever
\* keys are held and whatever the desired next direction is.
C4_StopsAtWallOriginal == C4_Case => player.velocity = <<0, 0>>

\* C4, amended: in that case the update leaves velocity zero whenever the
\* desired next direction, after the held keys are read, is RIGHT or points
\* at a cell for which is_wall returns true.
C4_StopsAtWall ==
    ( /\ C4_Case
      /\ \/ player.next_direction = "RIGHT"
         \/ is_wall_outcome(Neighbour(prev_player, player.next_direction))
                = "True" )
        => player.velocity = <<0, 0>>

C4_Witness ==
    /\ C4_Case
    /\ player.next_direction # "RIGHT"
    /\ prev_player.next_direction # player.next_direction
    /\ is_wall_outcome(Neighbour(prev_player, player.next_direction)) = "True"
    /\ prev_player.velocity # <<0, 0>>
    /\ player.velocity = <<0, 0>>

\* C7: an update of the player or of the ghost changes the entity's
\* direction only if the entity was centered when the update began.
C7_TurnsOnlyWhenCentered ==
    /\ (last_op = "Player.update" /\ player.direction # prev_player.direction)
            => is_centered(prev_player)
    /\ (last_op = "Ghost.update" /\ ghost.direction # prev_ghost.direction)
            => is_centered(prev_ghost)

C7_Witness ==
    /\ last_op = "Player.update"
    /\ player.direction # prev_player.direction
    /\ is_centered(prev_player)
    /\ player.velocity # <<0, 0>>


----------------------------------------------------------------------------
(* Claims about the engine loop, the input and the lives *)

\* C2: within one iteration of GameEngine.run, handle_events, update and
\* draw are all invoked on the same scene object, also when handle_events
\* requests change_state in that iteration.
C2_OneSceneEachIteration ==
    (last_op = "GameEngine.run" /\ exc = "none") =>
        /\ calls.handle_events = calls.update
        /\ calls.update = calls.draw

\* The direction a movement key asks for
KeyDirection(k) ==
    IF k \in {"K_LEFT", "K_a"} THEN "LEFT"
    ELSE IF k \in {"K_RIGHT", "K_d"} THEN "RIGHT"
    ELSE IF k \in {"K_UP", "K_w"} THEN "UP"
    ELSE "DOWN"

\* The held movement keys, least recently pressed first
MovementHeld == SelectSeq(press_order, LAMBDA k : k \in MoveKeys)

\* C5: when several movement keys are held, the player's desired next
\* direction after Player.update is the direction of the most recently
\* pressed key among those still held.
C5_MostRecentHeldKeyWins ==
    ( /\ last_op = "GameEngine.run"
      /\ exc = "none"
      /\ calls.update # MenuObject
      /\ Len(MovementHeld) >= 2 ) =>
        player.next_direction = KeyDirection(MovementHeld[Len(MovementHeld)])

\* C6: while is_invulnerable is true, a call of Player.lose_life does not
\* decrease the lives counter.
C6_InvulnerableIgnoresDamage ==
    (last_op = "Player.lose_life" /\ prev_player.is_invulnerable) =>
        player.lives = prev_player.lives

----------------------------------------------------------------------------
(* Claims about pellet collection *)

CollisionChecked ==
    /\ exc = "none"
    /\ last_op \in {"GameScene.update", "Maze.check_pellet_collision"}

\* The last call of check_pellet_collision found the player where the call
\* before it had found it
SecondCallSamePosition ==
    /\ exc = "none"
    /\ \/ last_op = "Maze.check_pellet_collision"
       \/ /\ last_op = "GameScene.update"
          /\ frames >= 2
          /\ player.position = prev_player.position

\* C9: check_pellet_collision is idempotent on eaten pellets: called again
\* with the player at the same position it returns (0, false), marks no
\* pellet and leaves GameScene.score as it was.
C9_SecondCallReturnsNothing ==
    SecondCallSamePosition =>
        /\ coll = NoCollision
        /\ eaten = prev_eaten
        /\ score = prev_score

\* A second call at the same position, with an eaten pellet within reach
C9_Witness ==
    /\ SecondCallSamePosition
    /\ \E p \in Pellets :
          /\ p.cell \in prev_eaten
          /\ Nearer(player.position, p.position, HalfCell)

\* The cells of the pellets that were uneaten before the last call and lie
\* nearer to the player than half a cell
DuePellets ==
    { p.cell : p \in { q \in Pellets :
                         /\ q.cell \notin prev_eaten
                         /\ Nearer(player.position, q.position,
                                   Px(CELL_SIZE) \div 2) } }

\* C10: one call of check_pellet_collision marks as eaten exactly the
\* pellets that were uneaten and nearer than half a cell, leaves every other
\* pellet as it was, returns the sum of their points (10 normal, 50 power),
\* and returns the power flag true exactly when one of them is a power
\* pellet.
C10_CollectsExactlyThePelletsInReach ==
    CollisionChecked =>
        LET power_due == { g \in DuePellets : Glyph(g[1], g[2]) = "P" }
        IN  /\ eaten = prev_eaten \cup DuePellets
            /\ coll.score = 10 * Cardinality(DuePellets \ power_due)
                              + 50 * Cardinality(power_due)
            /\ coll.power = (power_due # {})

\* A call that collected a power pellet, normal pellets collected before it
C10_Witness ==
    /\ CollisionChecked
    /\ coll = [score |-> 50, power |-> TRUE]
    /\ Cardinality(eaten) >= 2
    /\ eaten # prev_eaten


----------------------------------------------------------------------------
(* Claims about sessions and the scene state machine *)

\* C11: within one game session a pellet's eaten flag is monotonic: no
\* step of the session takes a pellet out of the set of the eaten pellets.
C11_EatenIsMonotonic == [][eaten \subseteq eaten']_vars

\* An update that found a pellet eaten before it, the player no longer
\* within reach of that pellet
C11_Witness ==
    /\ last_op = "GameScene.update"
    /\ exc = "none"
    /\ \E g \in prev_eaten :
          /\ g \in eaten
          /\ ~ Nearer(player.position, grid_to_world(g), HalfCell)

\* C12: every change_state(PLAYING) installs a brand-new session: right
\* after it the current scene is a GameScene object built by this call, with
\* score 0, every pellet uneaten, no particles, the player at its spawn with
\* 3 lives and the ghost at its spawn; and the updates that follow never
\* change the objects of the session it replaced.
C12_NewSessionIsFresh ==
    /\ []( (last_op = "GameEngine.change_state" /\ requested = "PLAYING") =>
             /\ current_state = "PLAYING"
             /\ current_scene = scenes["PLAYING"]
             /\ current_scene # prev_engine.scenes["PLAYING"]
             /\ score = 0
             /\ eaten = {}
             /\ particles = <<>>
             /\ player.position = player_start_pos
             /\ player.lives = 3
             /\ ghost.position = ghost_start_pos )
    /\ [][ last_op' \in {"GameScene.update", "Scene.update"} =>
             old_session' = old_session ]_vars

\* An update of a session that replaced a session in which the player had
\* moved and scored
C12_Witness ==
    /\ last_op = "GameScene.update"
    /\ scenes["PLAYING"] = GameObject(3)
    /\ old_session.score > 0
    /\ old_session.eaten # {}
    /\ old_session.player.position # player_start_pos
    /\ old_session.ghost.position # ghost_start_pos
    /\ score = 0

\* C13: change_state with a state that has no registered scene (PAUSED,
\* GAME_OVER, LEVEL_TRANSITION) leaves current_state, current_scene and the
\* scene registry unchanged.
C13_UnregisteredStateIsIgnored ==
    ( /\ last_op = "GameEngine.change_state"
      /\ requested \in {"PAUSED", "GAME_OVER", "LEVEL_TRANSITION"} ) =>
        /\ current_state = prev_engine.current_state
        /\ current_scene = prev_engine.current_scene
        /\ scenes = prev_engine.scenes

\* A refused request made while a session is being played
C13_Witness ==
    /\ last_op = "GameEngine.change_state"
    /\ requested = "GAME_OVER"
    /\ current_state = "PLAYING"
    /\ score > 0

\* C14: over every run of the engine current_state is MAIN_MENU or
\* PLAYING, and once it is PLAYING it is PLAYING after every later
\* iteration, whatever events arrive.
C14_OnlyMenuThenPlaying ==
    /\ [](current_state \in {"MAIN_MENU", "PLAYING"})
    /\ [][current_state = "PLAYING" => current_state' = "PLAYING"]_vars

\* An iteration that began in PLAYING and in which RETURN was pressed
C14_Witness ==
    /\ last_op = "GameEngine.run"
    /\ prev_engine.current_state = "PLAYING"
    /\ current_state = "PLAYING"
    /\ "K_RETURN" \in keys_just_pressed

\* The last iteration began in the main menu with 'Start Game' selected,
\* and RETURN was just-pressed in it
ConfirmedStart ==
    /\ last_op = "GameEngine.run"
    /\ prev_engine.current_scene = MenuObject
    /\ prev_engine.selected_option = 0
    /\ "K_RETURN" \in keys_just_pressed

\* C15 as stated: in the main menu with 'Start Game' selected, every frame
\* in which RETURN is just-pressed ends with current_state = PLAYING,
\* whatever other keys are pressed in the same frame.
C15_ConfirmStartsPlayOriginal ==
    ConfirmedStart => current_state = "PLAYING"

\* C15, amended: in the main menu with 'Start Game' selected, every frame
\* in which RETURN is just-pressed and neither DOWN nor UP is just-pressed
\* ends with current_state = PLAYING, whatever other keys are pressed in
\* the same frame.
C15_ConfirmStartsPlay ==
    ( /\ ConfirmedStart
      /\ "K_DOWN" \notin keys_just_pressed
      /\ "K_UP" \notin keys_just_pressed ) =>
        current_state = "PLAYING"

\* RETURN and another key pressed in one frame of the menu
C15_Witness ==
    /\ ConfirmedStart
    /\ "K_DOWN" \notin keys_just_pressed
    /\ "K_UP" \notin keys_just_pressed
    /\ "K_LEFT" \in keys_just_pressed
    /\ current_state = "PLAYING"

\* The last iteration began in the main menu with 'Quit' selected, and the
\* menu took a just-pressed RETURN as the confirmation
QuitConfirmed ==
    /\ prev_engine.current_scene = MenuObject
    /\ prev_engine.selected_option = 1
    /\ "K_RETURN" \in keys_just_pressed
    /\ "K_DOWN" \notin keys_just_pressed
    /\ "K_UP" \notin keys_just_pressed

Survivors ==
    { i \in 1..Len(prev_particles) : prev_particles[i].lifetime - dt > 0 }

\* The place among the survivors of the particle that was at index i
Rank(i) == Cardinality({ j \in Survivors : j <= i })

\* C17: ParticleSystem.update(dt) removes exactly the particles whose
\* remaining lifetime after subtracting dt is <= 0; every other particle
\* stays in the same relative order, with its remaining lifetime strictly
\* decreased and its maximum lifetime and color unchanged.
C17_UpdateRemovesExactlyTheExpired ==
    last_op = "ParticleSystem.update" =>
        /\ Len(particles) = Cardinality(Survivors)
        /\ \A i \in Survivors :
              /\ particles[Rank(i)].lifetime = prev_particles[i].lifetime - dt
              /\ particles[Rank(i)].lifetime < prev_particles[i].lifetime
              /\ particles[Rank(i)].max_lifetime =
                     prev_particles[i].max_lifetime
              /\ particles[Rank(i)].color = prev_particles[i].color

\* An update that removed a particle whose lifetime reached exactly 0 from
\* between two particles that stay
C17_Witness ==
    /\ last_op = "ParticleSystem.update"
    /\ \E i \in 2..(Len(prev_particles) - 1) :
          /\ prev_particles[i].lifetime - dt = 0
          /\ i - 1 \in Survivors
          /\ i + 1 \in Survivors
    /\ Len(particles) = 2

C19_PlayIsNoOpWhenDisabledOrUnknown ==
    ( /\ last_op = "SoundManager.play"
      /\ \/ ~ prev_sound.enabled
         \/ play_request.name \notin prev_sound.sounds ) =>
        /\ played = <<>>
        /\ exc = "none"
        /\ sound = prev_sound

\* A looping play of a loaded effect on a disabled manager
C19_Witness ==
    /\ last_op = "SoundManager.play"
    /\ ~ prev_sound.enabled
    /\ play_request.name \in prev_sound.sounds
    /\ play_request.loops = 0 - 1
    /\ played = <<>>

\* C20: if the synthesis of any of the six effects fails during the
\* construction of the SoundManager, the failure does not propagate,
\* enabled is false from then on, and every later play call, also one for
\* an effect synthesized before the failure, starts no playback.
C20_SynthesisFailureDisablesAudio ==
    load_failed =>
        /\ exc = "none"
        /\ ~ sound.enabled
        /\ last_op = "SoundManager.play" => played = <<>>

\* The synthesis of the last effect failed and one of the five effects
\* synthesized before it is played
C20_Witness ==
    /\ load_failed
    /\ sound.sounds = { SoundNames[i] : i \in 1..(Len(SoundNames) - 1) }
    /\ last_op = "SoundManager.play"
    /\ play_request.name = "death"
    /\ played = <<>>

----------------------------------------------------------------------------
(* Claims on InputManager.update *)

\* The keys with a press event in the last batch
PressedInBatch ==
    { batch[i].key : i \in { j \in 1..Len(batch) : batch[j].type = "KEYDOWN" } }

\* The places of the last batch's press and release events of key k
KeyEventsOf(k) ==
    { i \in 1..Len(batch) :
        batch[i].key = k /\ batch[i].type \in {"KEYDOWN", "KEYUP"} }

\* Key k is held once the batch's events were applied in order: its last
\* press or release event is a press, or it has none and was held before
HeldAfterBatch(k) ==
    IF KeyEventsOf(k) = {} THEN k \in prev_input
    ELSE batch[CHOOSE i \in KeyEventsOf(k) :
                   \A j \in KeyEventsOf(k) : j <= i].type = "KEYDOWN"

\* C21: after InputManager.update(events) the just-pressed set is exactly
\* the set of keys with a press event in the batch, and the held set is the
\* previous held set with the batch's press and release events applied in
\* order; a release never removes a key from the just-pressed set, so a key
\* pressed and released in one batch is just-pressed but not held.
C21_UpdateAppliesBatchInOrder ==
    last_op = "InputManager.update" =>
        /\ keys_just_pressed = PressedInBatch
        /\ keys_pressed = { k \in InputKeys : HeldAfterBatch(k) }

\* A held key released, and another key pressed and released, in one batch
C21_Witness ==
    /\ last_op = "InputManager.update"
    /\ "K_LEFT" \in prev_input
    /\ batch = << [type |-> "KEYDOWN", key |-> "K_RETURN"],
                  [type |-> "KEYUP", key |-> "K_LEFT"],
                  [type |-> "KEYUP", key |-> "K_RETURN"] >>
    /\ keys_just_pressed = {"K_RETURN"}
    /\ keys_pressed = {}

----------------------------------------------------------------------------
(* Claims on the grid transform and on is_centered *)

\* The probed position is off the cell's center by more than the tolerance
\* along an axis
OffCenter ==
    \/ Abs(probe.offset[1]) > Px(CENTER_TOLERANCE)
    \/ Abs(probe.offset[2]) > Px(CENTER_TOLERANCE)

\* The same, the offset being at most CELL_SIZE less the tolerance
OffCenterWithinCell ==
    \E i \in {1, 2} :
        /\ Abs(probe.offset[i]) > Px(CENTER_TOLERANCE)
        /\ Abs(probe.offset[i]) <= Px(CELL_SIZE - CENTER_TOLERANCE)

\* C22 as stated: an entity exactly at grid_to_world(cell) reports
\* is_centered true for every cell, and an entity offset from that point
\* along either axis by more than the tolerance reports is_centered false.
C22_CenteredOnlyNearCenterOriginal ==
    probe.made =>
        /\ probe.offset = <<0, 0>> => probe.centered
        /\ OffCenter => ~ probe.centered

\* C22, amended: an entity exactly at grid_to_world(cell) reports
\* is_centered true for every cell, and an entity offset from that point
\* along either axis by more than the tolerance and by at most CELL_SIZE
\* less the tolerance (29 units) reports is_centered false.
C22_CenteredOnlyNearCenter ==
    probe.made =>
        /\ probe.offset = <<0, 0>> => probe.centered
        /\ OffCenterWithinCell => ~ probe.centered

\* A position on the center along x and 3.01 units below it along y, for a
\* cell left of the layout
C22_Witness ==
    /\ probe.made
    /\ probe.cell[1] < 0
    /\ probe.offset = <<0, Px(CENTER_TOLERANCE) + 1>>
    /\ ~ probe.centered

\* C23: world_to_grid inverts grid_to_world: for every integer grid cell,
\* world_to_grid(grid_to_world(cell)) = cell, and get_grid_pos of an
\* entity placed at grid_to_world(cell) returns the same cell.
C23_WorldToGridInvertsGridToWorld ==
    (probe.made /\ probe.offset = <<0, 0>>) =>
        /\ probe.grid = probe.cell
        /\ probe.entity_grid = probe.cell

----------------------------------------------------------------------------
(* Claims on the ghost's passage through a cell *)

\* The last update took the ghost out of the centered window of a cell
\* that has a non-wall exit other than the one the ghost came in by
LeftJunction ==
    /\ last_op = "Ghost.update"
    /\ crossing.left
    /\ crossing.exits \ {Reverse(crossing.entered)} # {}

\* C24: from the tick a ghost enters a cell's centered window until the
\* tick it leaves it, the heading on leaving is never the reverse of the
\* heading on entering when the cell has a non-wall exit other than the
\* one it came from.
C24_NoBacktrackAcrossCell ==
    LeftJunction => ghost.direction # Reverse(crossing.entered)

----------------------------------------------------------------------------
(* Claims on the invulnerability countdown *)

----------------------------------------------------------------------------
(* Claims on a session's entities, pellets and score *)

\* The grid cell containing entity e's position is one for which is_wall
\* returns false
InOpenCell(e) == is_wall_outcome(get_grid_pos(e)) = "False"

\* C26: after any sequence of GameScene.update calls, with any positive
\* per-frame dt and any held keys, the grid cell containing the player's
\* position and the grid cell containing each ghost's position is a cell
\* for which is_wall is false.
C26_EntitiesNeverEnterWalls == InOpenCell(player) /\ InOpenCell(ghost)

\* C27: every pellet produced by parsing the built-in layout lies at the
\* center of a cell for which is_wall is false: a call of is_wall for a
\* cell that holds a pellet returns false.
C27_PelletsLieInOpenCells ==
    /\ \A p \in Pellets : p.position = grid_to_world(p.cell)
    /\ wall_query.cell \in PelletCells => wall_query.outcome = "False"

\* The point values of the pellets whose eaten flag is true, summed: 10
\* for each '.' cell and 50 for each 'P' cell
EatenPoints ==
    10 * Cardinality({ g \in eaten : Glyph(g[1], g[2]) = "." })
        + 50 * Cardinality({ g \in eaten : Glyph(g[1], g[2]) = "P" })

\* C28: in every reachable state of a game session, GameScene.score equals
\* the sum of the point values of the session's pellets whose eaten flag is
\* true, and score never decreases across updates.
C28_ScoreIsSumOfEatenPellets ==
    /\ [](score = EatenPoints)
    /\ [][score' >= score]_vars

\* A power pellet eaten after five plain ones
C28_Witness ==
    /\ last_op = "GameScene.update"
    /\ coll.power
    /\ Cardinality(eaten) = 6
    /\ score = 100
    /\ prev_score = 50

----------------------------------------------------------------------------
(* Claims on the engine's scene registry and on the power state *)

\* C29: after construction and after every change_state call, accepted or
\* ignored, current_scene is the scene registered for current_state.
C29_CurrentSceneIsRegisteredScene ==
    /\ current_state \in DOMAIN scenes
    /\ current_scene = scenes[current_state]

\* A change_state(PLAYING) accepted during play, building the third
\* GameScene
C29_Witness ==
    /\ last_op = "GameEngine.change_state"
    /\ requested = "PLAYING"
    /\ prev_engine.current_state = "PLAYING"
    /\ prev_engine.current_scene = GameObject(2)
    /\ current_scene = GameObject(3)

====
